---------------------------- MODULE Spec2Model ----------------------------
(***************************************************************************)
(* A model of utils/converter.js: the module-level exchangeRates table,    *)
(* the two function expressions assigned to exports.currencyConverter, and *)
(* calls of the exported function with arbitrary JavaScript arguments.     *)
(* A caller calls the exported function, which runs to its return or its   *)
(* throw, and then takes the outcome; nothing of a call outlives it.       *)
(*                                                                         *)
(* JavaScript numbers are IEEE-754 binary64 values.  A finite non-zero     *)
(* number is kept as sign, 53-bit significand and binary exponent, the     *)
(* significand as five little-endian limbs of 13 bits, so that `*` and the *)
(* reading of a decimal literal round exactly as the engine rounds them.   *)
(* Subnormal results are out of reach of the amounts and rates used here.  *)
(***************************************************************************)
EXTENDS Integers, Sequences, FiniteSets

(***************************************************************************)
(* Bounds of the model.                                                    *)
(***************************************************************************)
\* Every integer amount in -MaxAmount..MaxAmount is tried.
MaxAmount == 12
\* Every integer amount in -MaxKeptAmount..MaxKeptAmount is tried by the
\* callers that compare two calls.
MaxKeptAmount == 3

(***************************************************************************)
(* Limb arithmetic.                                                        *)
(***************************************************************************)
\* A significand is kept in NLimbs limbs of LimbBits bits: 4 * 13 = 52.
LimbBits == 13
Base == 2 ^ LimbBits
HalfBase == 2 ^ (LimbBits - 1)
NLimbs == 5
\* 2^52, the smallest 53-bit significand.
MinSignificand == [i \in 1..NLimbs |-> IF i = NLimbs THEN 1 ELSE 0]

RECURSIVE BitLen(_)
BitLen(n) == IF n = 0 THEN 0 ELSE 1 + BitLen(n \div 2)

\* n * 2^sh as limbs, for 0 <= n < 2^17 and n * 2^sh < 2^65.
ShiftedLimbs(n, sh) ==
  LET w == sh \div LimbBits
      x == n * (2 ^ (sh % LimbBits))
  IN  [i \in 1..NLimbs |->
         IF i = w + 1 THEN x % Base
         ELSE IF i = w + 2 THEN (x \div Base) % Base
         ELSE IF i = w + 3 THEN x \div (Base * Base)
         ELSE 0]

\* Long division of a limb number by a small d, from the top limb down:
\* the remainder after the limbs above i, then the quotient limbs.
RECURSIVE RemAbove(_, _, _)
RemAbove(m, d, i) ==
  IF i > Len(m) THEN 0 ELSE (RemAbove(m, d, i + 1) * Base + m[i]) % d

DivSmall(m, d) ==
  [q |-> [i \in 1..Len(m) |-> (RemAbove(m, d, i + 1) * Base + m[i]) \div d],
   r |-> RemAbove(m, d, 1)]

\* m + 1: limb i is bumped when every limb below it is Base - 1.
Inc(m) ==
  [i \in 1..Len(m) |->
     IF \A j \in 1..(i - 1) : m[j] = Base - 1
     THEN (IF i < Len(m) THEN (m[i] + 1) % Base ELSE m[i] + 1)
     ELSE m[i]]

\* m \div 2.
Halve(m) ==
  [i \in 1..Len(m) |->
     (m[i] \div 2) + (IF i < Len(m) THEN (m[i + 1] % 2) * HalfBase ELSE 0)]

\* Column k of the schoolbook product: the sum of a[i] * b[j], i + j = k + 1.
RECURSIVE ColumnSum(_, _, _, _)
ColumnSum(a, b, k, i) ==
  IF i > NLimbs THEN 0
  ELSE (IF k + 1 - i \in 1..NLimbs THEN a[i] * b[k + 1 - i] ELSE 0)
       + ColumnSum(a, b, k, i + 1)

RECURSIVE CarryInto(_, _, _)
CarryInto(a, b, k) ==
  IF k = 1 THEN 0
  ELSE (ColumnSum(a, b, k - 1, 1) + CarryInto(a, b, k - 1)) \div Base

\* The full product of two limb numbers, 2 * NLimbs limbs.
MulLimbs(a, b) ==
  [k \in 1..(2 * NLimbs) |-> (ColumnSum(a, b, k, 1) + CarryInto(a, b, k)) % Base]

(***************************************************************************)
(* JavaScript values.  Field t is what typeof gives.                       *)
(***************************************************************************)
Undefined == [t |-> "undefined"]
Null == [t |-> "object", c |-> "null"]
NaN == [t |-> "number", c |-> "nan"]
Infinity(s) == [t |-> "number", c |-> "infinity", s |-> s]
Zero(s) == [t |-> "number", c |-> "zero", s |-> s]
\* The significand is kept as a tuple of its limbs.
Finite(s, m, e) ==
  [t |-> "number", c |-> "finite", s |-> s, m |-> SubSeq(m, 1, NLimbs), e |-> e]
Str(chars) == [t |-> "string", chars |-> chars]
\* The built-in function Object, reached through Object.prototype.constructor.
ObjectFunction == [t |-> "function", name |-> Str(<<"O", "b", "j", "e", "c", "t">>)]

IsNumber(v) == v.t = "number"
IsNaNValue(v) == IsNumber(v) /\ v.c = "nan"
IsFiniteNumber(v) == IsNumber(v) /\ v.c \in {"finite", "zero"}

\* The largest finite binary64 is below 2^1024 = 2^53 * 2^971.
MaxExponent == 971

\* Round a quotient q (53 bits) up or not, renormalising a carry into bit 53.
Rounded(s, q, e, up) ==
  LET q1 == IF up THEN Inc(q) ELSE q
      m == IF q1[NLimbs] >= 2 THEN MinSignificand ELSE q1
      e1 == IF q1[NLimbs] >= 2 THEN e + 1 ELSE e
  IN  IF e1 > MaxExponent THEN Infinity(s) ELSE Finite(s, m, e1)

\* The exponent L with 2^(L-1) <= n/d < 2^L, for n, d > 0.
RECURSIVE Doublings(_, _)
Doublings(n, d) == IF n >= d THEN 0 ELSE 1 + Doublings(2 * n, d)

Log2Ceil(n, d) == IF n >= d THEN BitLen(n \div d) ELSE 1 - Doublings(n, d)

\* The binary64 value of the decimal n/d (d a power of ten), sign s: the
\* nearest 53-bit significand, ties to even.
Decimal(s, n, d) ==
  IF n = 0 THEN Zero(s)
  ELSE LET sh == 53 - Log2Ceil(n, d)
           qr == DivSmall(ShiftedLimbs(n, sh), d)
           up == 2 * qr.r > d \/ (2 * qr.r = d /\ qr.q[1] % 2 = 1)
       IN  Rounded(s, qr.q, 0 - sh, up)

IntegerValue(n) == IF n < 0 THEN Decimal(1, 0 - n, 1) ELSE Decimal(0, n, 1)

Xor(s1, s2) == (s1 + s2) % 2

\* x * y for finite non-zero binary64 values: the exact 106-bit product of
\* the significands, rounded to 53 bits, ties to even.
MulFinite(x, y) ==
  LET p == MulLimbs(x.m, y.m)
      s == Xor(x.s, y.s)
      low == [i \in 1..(NLimbs - 1) |-> p[i]]
      q53 == [i \in 1..NLimbs |-> p[i + NLimbs - 1]]
  IN  IF q53[NLimbs] >= 2
      THEN LET q == Halve(q53)
               up == q53[1] % 2 = 1
                     /\ (low # [i \in 1..(NLimbs - 1) |-> 0] \/ q[1] % 2 = 1)
           IN  Rounded(s, q, x.e + y.e + 53, up)
      ELSE LET half == low[NLimbs - 1] >= HalfBase
               rest == low[NLimbs - 1] % HalfBase # 0
                       \/ \E i \in 1..(NLimbs - 2) : low[i] # 0
               up == half /\ (rest \/ q53[1] % 2 = 1)
           IN  Rounded(s, q53, x.e + y.e + 52, up)

\* Number::multiply.
NumberMultiply(x, y) ==
  IF x.c = "nan" \/ y.c = "nan" THEN NaN
  ELSE IF x.c = "infinity" \/ y.c = "infinity"
       THEN (IF x.c = "zero" \/ y.c = "zero" THEN NaN ELSE Infinity(Xor(x.s, y.s)))
  ELSE IF x.c = "zero" \/ y.c = "zero" THEN Zero(Xor(x.s, y.s))
  ELSE MulFinite(x, y)

(***************************************************************************)
(* Conversions and operators of the language.                              *)
(***************************************************************************)
DigitChars == <<"0", "1", "2", "3", "4", "5", "6", "7", "8", "9">>
IsDigit(ch) == \E i \in 1..Len(DigitChars) : DigitChars[i] = ch
DigitOf(ch) == (CHOOSE i \in 1..Len(DigitChars) : DigitChars[i] = ch) - 1

RECURSIVE DigitsValue(_, _)
DigitsValue(chars, n) ==
  IF n = 0 THEN 0 ELSE 10 * DigitsValue(chars, n - 1) + DigitOf(chars[n])

\* StringToNumber, for the empty string, unsigned decimal integers and
\* strings that are no numeric literal.
StringToNumber(chars) ==
  IF chars = <<>> THEN Zero(0)
  ELSE IF \A i \in 1..Len(chars) : IsDigit(chars[i])
       THEN IntegerValue(DigitsValue(chars, Len(chars)))
  ELSE NaN

ToNumber(v) ==
  CASE v.t = "number" -> v
    [] v.t = "undefined" -> NaN
    [] v.t = "string" -> StringToNumber(v.chars)
    [] v.t = "function" -> NaN
    [] v.t = "object" -> IF v.c = "null" THEN Zero(0) ELSE NaN

ToBoolean(v) ==
  CASE v.t = "number" -> v.c \notin {"zero", "nan"}
    [] v.t = "undefined" -> FALSE
    [] v.t = "string" -> v.chars # <<>>
    [] v.t = "function" -> TRUE
    [] v.t = "object" -> v.c # "null"

\* Unary minus on a number.
Negate(v) == IF v.c = "nan" THEN v ELSE [v EXCEPT !.s = 1 - @]

\* Math.abs on a number.
Magnitude(v) == IF v.c = "nan" THEN v ELSE [v EXCEPT !.s = 0]

\* The product of the magnitudes: the sign of the operands is lost.
MultiplyMagnitudes(a, b) == Magnitude(NumberMultiply(ToNumber(a), ToNumber(b)))

\* The * operator: both operands to numbers, then Number::multiply.
Multiply(a, b) == NumberMultiply(ToNumber(a), ToNumber(b))

\* typeof v !== 'number' || isNaN(v)
NotANumber(v) == v.t # "number" \/ IsNaNValue(ToNumber(v))

\* An ordinary object with the given own properties, a function from keys.
Object(props) == [t |-> "object", c |-> "ordinary", props |-> props]

\* Properties that an ordinary object and the function Object do not own
\* come from the prototype chain; of these the keys of the model can name
\* Object.prototype.constructor and Object.name.
GetProperty(obj, key) ==
  CASE obj.t = "object" /\ obj.c = "ordinary" ->
         IF key \in DOMAIN obj.props THEN obj.props[key]
         ELSE IF key = "constructor" THEN ObjectFunction
         ELSE Undefined
    [] obj.t = "function" ->
         IF key = "name" THEN obj.name
         ELSE IF key = "constructor" THEN ObjectFunction
         ELSE Undefined

(***************************************************************************)
(* Outcomes of a call.                                                     *)
(***************************************************************************)
NoOutcome == [kind |-> "none"]
NoCall == [kind |-> "none"]
Return(v) == [kind |-> "return", value |-> v]
Throw(name, message) == [kind |-> "throw", name |-> name, message |-> message]

(***************************************************************************)
(* utils/converter.js                                                      *)
(***************************************************************************)
VARIABLES
  exchangeRates,   \* the module-level table
  pc,              \* "idle", or "completed": a call has run and its outcome is with the caller
  fromSymbol,      \* the arguments of the call
  toSymbol,
  amount,
  outcome,         \* what the call returned or threw
  kept,            \* an earlier call and its outcome, held by the caller
  frames,          \* the activation record of each caller whose steps interleave
  rate,            \* the binding of const rate in each activation record
  registration,    \* the call of registerUser and its outcome
  users,           \* services/userService.js: the in-memory array
  userCall,        \* the call of a function of the user service and its outcome
  live,            \* the users created and not since deleted or cleared
  tasks,           \* taskManager.js: this.tasks
  taskCall         \* the call of a method of TaskManager and its outcome

\* The call of one caller at a time, and what that caller kept.
callVars == <<pc, fromSymbol, toSymbol, amount, outcome, kept>>

\* The activation records of the callers whose steps interleave.
frameVars == <<frames, rate>>

\* The user service and its caller.
serviceVars == <<users, userCall, live>>

\* The task manager and its caller.
taskVars == <<tasks, taskCall>>

vars ==
  <<exchangeRates, callVars, frameVars, registration, serviceVars, taskVars>>

Pair(a, b) == [from |-> a, to |-> b]

\* const exchangeRates = { USD: {...}, INR: {...}, EUR: {...}, PHP: {...} }
NestedRates ==
  [c \in {"USD", "INR", "EUR", "PHP"} |->
     CASE c = "USD" -> Object([k \in {"INR", "EUR", "PHP"} |->
                         CASE k = "INR" -> Decimal(0, 745, 10)
                           [] k = "EUR" -> Decimal(0, 85, 100)
                           [] k = "PHP" -> Decimal(0, 5737, 100)])
       [] c = "INR" -> Object([k \in {"USD"} |-> Decimal(0, 13, 1000)])
       [] c = "EUR" -> Object([k \in {"USD"} |-> Decimal(0, 118, 100)])
       [] c = "PHP" -> Object([k \in {"USD"} |-> Decimal(0, 17, 1000)])]

NotFoundMessage(f, t) ==
  "Error: Conversion rate from " \o f \o " to " \o t \o " not found."

InvalidInputMessage == "Error: Invalid input"

\* The first function assigned to exports.currencyConverter.
currencyConverterFirst(f, t, a) ==
  LET fromRates == GetProperty(Object(exchangeRates), f)
  IN  IF ~ToBoolean(fromRates) \/ ~ToBoolean(GetProperty(fromRates, t))
      THEN Throw("Error", NotFoundMessage(f, t))
      ELSE IF NotANumber(a)
      THEN Throw("Error", InvalidInputMessage)
      ELSE Return(Multiply(a, GetProperty(fromRates, t)))

\* rate: 57.37 in place of 57.36, the value the nested table holds.
UsdPhpRateOfNestedTable == Decimal(0, 5737, 100)

\* { from: 'USD', to: 'PHP', rate: 57.36 }
UsdPhpRate == Decimal(0, 5736, 100)

\* The array literal of the second function; the record from EUR to USD has
\* no rate property.
RateList ==
  << [from |-> "USD", to |-> "INR", rate |-> Decimal(0, 745, 10)],
     [from |-> "INR", to |-> "USD", rate |-> Decimal(0, 13, 1000)],
     [from |-> "USD", to |-> "EUR", rate |-> Decimal(0, 85, 100)],
     [from |-> "EUR", to |-> "USD"],
     [from |-> "USD", to |-> "PHP", rate |-> UsdPhpRate],
     [from |-> "PHP", to |-> "USD", rate |-> Decimal(0, 17, 1000)] >>

\* Array.prototype.find with the predicate of the second function: the index
\* of the first record from f to t, 0 when find returns undefined.
FindRecord(f, t) ==
  IF \E i \in 1..Len(RateList) : RateList[i].from = f /\ RateList[i].to = t
  THEN CHOOSE i \in 1..Len(RateList) :
         /\ RateList[i].from = f /\ RateList[i].to = t
         /\ \A j \in 1..(i - 1) : ~(RateList[j].from = f /\ RateList[j].to = t)
  ELSE 0

\* r.rate
RateOf(r) == IF "rate" \in DOMAIN r THEN r.rate ELSE Undefined

ReadOfUndefinedMessage == "Cannot read properties of undefined (reading 'rate')"

\* The second function assigned to exports.currencyConverter.
currencyConverterSecond(f, t, a) ==
  LET i == FindRecord(f, t)
  IN  IF i = 0
      THEN Throw("TypeError", ReadOfUndefinedMessage)
      ELSE Return(Multiply(a, RateOf(RateList[i])))

\* exports.currencyConverter after the module has loaded: the second
\* assignment replaces the first.
exportedCurrencyConverter(f, t, a) == currencyConverterSecond(f, t, a)

(***************************************************************************)
(* The arguments callers pass.                                             *)
(***************************************************************************)
Symbols ==
  {"USD", "INR", "EUR", "PHP", "XYZ", "PH", "usd", "php", "constructor", "name"}

TestAmounts == {50, 100, 500}

NumberAmounts ==
  {IntegerValue(n) : n \in ((0 - MaxAmount)..MaxAmount) \cup TestAmounts}
    \cup {IntegerValue(0 - n) : n \in TestAmounts}
    \cup {Zero(1), Decimal(0, 5, 10), Decimal(0, 1999, 100),
          NaN, Infinity(0), Infinity(1)}

OtherAmounts ==
  {Null, Undefined, Str(<<>>), Str(<<"a", "b", "c">>), Str(<<"1", "0", "0">>),
   Str(<<"i", "n", "v", "a", "l", "i", "d">>)}

Amounts == NumberAmounts \cup OtherAmounts

(***************************************************************************)
(* The state machine.                                                      *)
(***************************************************************************)
\* Callers whose calls are in progress at the same time.
NumCallers == 2
Callers == 1..NumCallers

\* No activation record: the caller is not inside currencyConverter.
IdleFrame ==
  [pc |-> "idle", fromSymbol |-> "", toSymbol |-> "", amount |-> Undefined,
   found |-> 0, outcome |-> NoOutcome]

\* No call of registerUser is in progress.
NoRegistration ==
  [pc |-> "idle", email |-> Undefined, password |-> Undefined,
   username |-> Undefined, outcome |-> NoOutcome]

\* No call of the user service is in progress.
NoUserCall ==
  [pc |-> "idle", op |-> "", args |-> <<>>, outcome |-> NoOutcome,
   before |-> <<>>]

\* No call of a TaskManager method is in progress.
NoTaskCall ==
  [pc |-> "idle", op |-> "", args |-> <<>>, outcome |-> NoOutcome,
   before |-> <<>>]

Init ==
  /\ exchangeRates = NestedRates
  /\ pc = "idle"
  /\ fromSymbol = ""
  /\ toSymbol = ""
  /\ amount = Undefined
  /\ outcome = NoOutcome
  /\ kept = NoCall
  /\ frames = [c \in Callers |-> IdleFrame]
  /\ rate = [c \in Callers |-> Undefined]
  /\ registration = NoRegistration
  /\ users = <<>>
  /\ userCall = NoUserCall
  /\ live = {}
  /\ tasks = <<>>
  /\ taskCall = NoTaskCall

\* The first function left exported, with its result stored into the table
\* entry it was computed from.
CallOfUpdatingFunction(f, t, a) ==
  /\ pc = "idle"
  /\ fromSymbol' = f
  /\ toSymbol' = t
  /\ amount' = a
  /\ outcome' = currencyConverterFirst(f, t, a)
  /\ pc' = "completed"
  /\ exchangeRates' =
       IF outcome'.kind = "return" /\ f \in DOMAIN exchangeRates
          /\ t \in DOMAIN exchangeRates[f].props
       THEN [exchangeRates EXCEPT ![f].props[t] = outcome'.value]
       ELSE exchangeRates
  /\ UNCHANGED <<kept, frameVars, registration, serviceVars, taskVars>>

\* A caller calls currencyConverter(f, t, a); the call runs to its end.
Call(f, t, a) ==
  /\ pc = "idle"
  /\ fromSymbol' = f
  /\ toSymbol' = t
  /\ amount' = a
  /\ outcome' = exportedCurrencyConverter(f, t, a)
  /\ pc' = "completed"
  /\ UNCHANGED <<exchangeRates, kept, frameVars, registration, serviceVars, taskVars>>

\* The caller has the outcome; the call's frame is gone.
Resume ==
  /\ pc = "completed"
  /\ pc' = "idle"
  /\ fromSymbol' = ""
  /\ toSymbol' = ""
  /\ amount' = Undefined
  /\ outcome' = NoOutcome
  /\ UNCHANGED <<exchangeRates, kept, frameVars, registration, serviceVars, taskVars>>

\* The caller keeps the call and its outcome for a later comparison.
Keep ==
  /\ pc = "completed"
  /\ kept' = [kind |-> "call", from |-> fromSymbol, to |-> toSymbol,
               amount |-> amount, outcome |-> outcome]
  /\ pc' = "idle"
  /\ fromSymbol' = ""
  /\ toSymbol' = ""
  /\ amount' = Undefined
  /\ outcome' = NoOutcome
  /\ UNCHANGED <<exchangeRates, frameVars, registration, serviceVars, taskVars>>

Next ==
  \/ \E f \in Symbols, t \in Symbols, a \in Amounts : Call(f, t, a)
  \/ Resume

Spec == Init /\ [][Next]_vars

\* Callers that compare the outcomes of two calls: one call is kept, any
\* number of calls follow.
RepeatedSymbols == {"USD", "EUR", "PHP"}

RepeatedAmounts ==
  {IntegerValue(n) : n \in ((0 - MaxKeptAmount)..MaxKeptAmount) \cup {100, 0 - 100}}
    \cup {Zero(1), NaN, Infinity(0), Infinity(1), Undefined, Str(<<"a", "b", "c">>)}

NextTwoCalls ==
  \/ \E f \in RepeatedSymbols, t \in RepeatedSymbols, a \in RepeatedAmounts :
       Call(f, t, a)
  \/ Resume
  \/ Keep

SpecTwoCalls == Init /\ [][NextTwoCalls]_vars

(***************************************************************************)
(* Callers whose calls interleave statement by statement.                  *)
(***************************************************************************)
\* One binding of rate in the module, shared by every activation.
SharedRateBinding(c) == 1

\* const rate = ...: the binding belongs to the activation record of the
\* call that declares it.
RateBinding(c) == c

\* Caller c enters currencyConverter(f, t, a): the parameters are bound.
Enter(c, f, t, a) ==
  /\ frames[c].pc = "idle"
  /\ frames' = [frames EXCEPT ![c] =
       [pc |-> "entered", fromSymbol |-> f, toSymbol |-> t, amount |-> a,
        found |-> 0, outcome |-> NoOutcome]]
  /\ UNCHANGED <<exchangeRates, callVars, rate, registration, serviceVars, taskVars>>

\* [...].find((r) => r.from === fromSymbol && r.to === toSymbol)
Find(c) ==
  /\ frames[c].pc = "entered"
  /\ frames' = [frames EXCEPT
       ![c].found = FindRecord(frames[c].fromSymbol, frames[c].toSymbol),
       ![c].pc = "found"]
  /\ UNCHANGED <<exchangeRates, callVars, rate, registration, serviceVars, taskVars>>

\* const rate = (what find returned).rate
ReadRate(c) ==
  /\ frames[c].pc = "found"
  /\ IF frames[c].found = 0
     THEN /\ frames' = [frames EXCEPT
               ![c].outcome = Throw("TypeError", ReadOfUndefinedMessage),
               ![c].pc = "completed"]
          /\ UNCHANGED rate
     ELSE /\ rate' = [rate EXCEPT
               ![RateBinding(c)] = RateOf(RateList[frames[c].found])]
          /\ frames' = [frames EXCEPT ![c].pc = "bound"]
  /\ UNCHANGED <<exchangeRates, callVars, registration, serviceVars, taskVars>>

\* return amount * rate
ReturnProduct(c) ==
  /\ frames[c].pc = "bound"
  /\ frames' = [frames EXCEPT
       ![c].outcome = Return(Multiply(frames[c].amount, rate[RateBinding(c)])),
       ![c].pc = "completed"]
  /\ UNCHANGED <<exchangeRates, callVars, rate, registration, serviceVars, taskVars>>

\* Caller c has the outcome; the activation record is gone.
Leave(c) ==
  /\ frames[c].pc = "completed"
  /\ frames' = [frames EXCEPT ![c] = IdleFrame]
  /\ rate' = [rate EXCEPT ![RateBinding(c)] = Undefined]
  /\ UNCHANGED <<exchangeRates, callVars, registration, serviceVars, taskVars>>

ConcurrentSymbols == {"USD", "PHP"}
ConcurrentAmounts == {IntegerValue(100), IntegerValue(50)}

NextConcurrent ==
  \E c \in Callers :
    \/ \E f \in ConcurrentSymbols, t \in ConcurrentSymbols, a \in ConcurrentAmounts :
         Enter(c, f, t, a)
    \/ Find(c)
    \/ ReadRate(c)
    \/ ReturnProduct(c)
    \/ Leave(c)

SpecConcurrent == Init /\ [][NextConcurrent]_vars

(***************************************************************************)
(* registerUser                                                            *)
(***************************************************************************)
MaxEmailLen == 2
MaxPasswordLen == 9
MaxUsernameLen == 4

\* String.prototype.includes with a one-character search string.
Includes(v, ch) == \E i \in 1..Len(v.chars) : v.chars[i] = ch

\* v.length < n for a value that has properties: the length of a string is
\* its number of characters; a number has no length and undefined < n is
\* false.
LengthBelow(v, n) == v.t = "string" /\ Len(v.chars) < n

\* Reading a property of undefined or null throws.
HasNoProperties(v) == v.t \in {"undefined", "null"}

\* undefined.includes and undefined.length
ReadIncludesOfUndefined ==
  Throw("TypeError", "Cannot read properties of undefined (reading 'includes')")

ReadLengthOfUndefined ==
  Throw("TypeError", "Cannot read properties of undefined (reading 'length')")

\* A value that is no string has no method includes.
IncludesIsNotAFunction == Throw("TypeError", "email.includes is not a function")

InvalidEmail == Throw("Error", "Invalid email!")
PasswordTooShort == Throw("Error", "Password is too short!")
UsernameTooShort == Throw("Error", "Username is too short!")

\* registerUser with the password checked before the email.
registerUserPasswordFirst(email, password, username) ==
  IF HasNoProperties(password) THEN ReadLengthOfUndefined
  ELSE IF LengthBelow(password, 8) THEN PasswordTooShort
  ELSE IF HasNoProperties(email) THEN ReadIncludesOfUndefined
  ELSE IF email.t # "string" THEN IncludesIsNotAFunction
  ELSE IF ~Includes(email, "@") THEN InvalidEmail
  ELSE IF HasNoProperties(username) THEN ReadLengthOfUndefined
  ELSE IF LengthBelow(username, 3) THEN UsernameTooShort
  ELSE Return(Object([email |-> email, username |-> username,
                      password |-> password]))

\* registerUser with password.length <= 8 rejected.
registerUserAtMostEight(email, password, username) ==
  IF HasNoProperties(email) THEN ReadIncludesOfUndefined
  ELSE IF email.t # "string" THEN IncludesIsNotAFunction
  ELSE IF ~Includes(email, "@") THEN InvalidEmail
  ELSE IF HasNoProperties(password) THEN ReadLengthOfUndefined
  ELSE IF LengthBelow(password, 8 + 1) THEN PasswordTooShort
  ELSE IF HasNoProperties(username) THEN ReadLengthOfUndefined
  ELSE IF LengthBelow(username, 3) THEN UsernameTooShort
  ELSE Return(Object([email |-> email, username |-> username,
                      password |-> password]))

\* registerUser with the username checked before the password.
registerUserUsernameFirst(email, password, username) ==
  IF HasNoProperties(email) THEN ReadIncludesOfUndefined
  ELSE IF email.t # "string" THEN IncludesIsNotAFunction
  ELSE IF ~Includes(email, "@") THEN InvalidEmail
  ELSE IF HasNoProperties(username) THEN ReadLengthOfUndefined
  ELSE IF LengthBelow(username, 3) THEN UsernameTooShort
  ELSE IF HasNoProperties(password) THEN ReadLengthOfUndefined
  ELSE IF LengthBelow(password, 8) THEN PasswordTooShort
  ELSE Return(Object([email |-> email, username |-> username,
                      password |-> password]))

\* registerUser returning the object the last test of utils.test.js expects.
registerUserReturningEmpty(email, password, username) ==
  IF HasNoProperties(email) THEN ReadIncludesOfUndefined
  ELSE IF email.t # "string" THEN IncludesIsNotAFunction
  ELSE IF ~Includes(email, "@") THEN InvalidEmail
  ELSE IF HasNoProperties(password) THEN ReadLengthOfUndefined
  ELSE IF LengthBelow(password, 8) THEN PasswordTooShort
  ELSE IF HasNoProperties(username) THEN ReadLengthOfUndefined
  ELSE IF LengthBelow(username, 3) THEN UsernameTooShort
  ELSE Return(Object([email |-> Str(<<>>), username |-> Str(<<>>),
                      password |-> Str(<<>>)]))

\* exports.registerUser = function (email, password, username) { ... }
registerUser(email, password, username) ==
  IF HasNoProperties(email) THEN ReadIncludesOfUndefined
  ELSE IF email.t # "string" THEN IncludesIsNotAFunction
  ELSE IF ~Includes(email, "@") THEN InvalidEmail
  ELSE IF HasNoProperties(password) THEN ReadLengthOfUndefined
  ELSE IF LengthBelow(password, 8) THEN PasswordTooShort
  ELSE IF HasNoProperties(username) THEN ReadLengthOfUndefined
  ELSE IF LengthBelow(username, 3) THEN UsernameTooShort
  ELSE Return(Object([email |-> email, username |-> username,
                      password |-> password]))

\* The string of n characters ch.
Repeat(ch, n) == Str([i \in 1..n |-> ch])

\* registerUser('test@email.com', 'password', 'username')
TestEmail ==
  Str(<<"t", "e", "s", "t", "@", "e", "m", "a", "i", "l", ".", "c", "o", "m">>)
TestPassword == Str(<<"p", "a", "s", "s", "w", "o", "r", "d">>)
TestUsername == Str(<<"u", "s", "e", "r", "n", "a", "m", "e">>)

Emails ==
  {Str(chars) : chars \in UNION {[1..n -> {"t", "@"}] : n \in 0..MaxEmailLen}}
    \cup {Undefined, IntegerValue(1), TestEmail}

Passwords ==
  {Repeat("p", n) : n \in 0..MaxPasswordLen}
    \cup {Undefined, IntegerValue(1), TestPassword}

Usernames ==
  {Repeat("u", n) : n \in 0..MaxUsernameLen}
    \cup {Undefined, IntegerValue(1), TestUsername}

\* A caller calls registerUser(e, p, u); the call runs to its end.
CallRegisterUser(e, p, u) ==
  /\ registration.pc = "idle"
  /\ registration' =
       [pc |-> "completed", email |-> e, password |-> p, username |-> u,
        outcome |-> registerUser(e, p, u)]
  /\ UNCHANGED <<exchangeRates, callVars, frameVars, serviceVars, taskVars>>

\* The caller has the outcome; the call's frame is gone.
ResumeRegisterUser ==
  /\ registration.pc = "completed"
  /\ registration' = NoRegistration
  /\ UNCHANGED <<exchangeRates, callVars, frameVars, serviceVars, taskVars>>

NextRegister ==
  \/ \E e \in Emails, p \in Passwords, u \in Usernames : CallRegisterUser(e, p, u)
  \/ ResumeRegisterUser

SpecRegister == Init /\ [][NextRegister]_vars

(***************************************************************************)
(* services/userService.js                                                 *)
(***************************************************************************)
MaxUserId == 3

\* a === b for the values used as ids: NaN equals nothing, the two zeros
\* are equal to each other.
StrictEquals(a, b) ==
  IF a.t = "number" /\ b.t = "number"
  THEN IF a.c = "nan" \/ b.c = "nan" THEN FALSE
       ELSE IF a.c = "zero" /\ b.c = "zero" THEN TRUE
       ELSE a = b
  ELSE a = b

\* users.findIndex((u) => u.id === id), counted from 1; 0 stands for -1 and
\* for the undefined of users.find.
FindUser(store, id) ==
  IF \E i \in 1..Len(store) : StrictEquals(store[i].props.id, id)
  THEN CHOOSE i \in 1..Len(store) :
         /\ StrictEquals(store[i].props.id, id)
         /\ \A j \in 1..(i - 1) : ~StrictEquals(store[j].props.id, id)
  ELSE 0

\* array.splice(i, 1) on the array, i counted from 1.
RemoveAt(seq, i) == SubSeq(seq, 1, i - 1) \o SubSeq(seq, i + 1, Len(seq))

RequiredFields == Throw("Error", "ID and Name are required")
UserAlreadyExists == Throw("Error", "User already exists")
UserNotFound == Throw("Error", "User not found")

\* createUser without the test for an existing id.
createUserUnchecked(store, arg) ==
  LET id == GetProperty(arg, "id")
      name == GetProperty(arg, "name")
  IN  IF ~ToBoolean(id) \/ ~ToBoolean(name)
      THEN [users |-> store, outcome |-> RequiredFields]
      ELSE LET user == Object([id |-> id, name |-> name])
           IN  [users |-> Append(store, user), outcome |-> Return(user)]

\* function createUser({ id, name })
createUser(store, arg) ==
  LET id == GetProperty(arg, "id")
      name == GetProperty(arg, "name")
  IN  IF ~ToBoolean(id) \/ ~ToBoolean(name)
      THEN [users |-> store, outcome |-> RequiredFields]
      ELSE IF FindUser(store, id) # 0
      THEN [users |-> store, outcome |-> UserAlreadyExists]
      ELSE LET user == Object([id |-> id, name |-> name])
           IN  [users |-> Append(store, user), outcome |-> Return(user)]

\* function getUser(id)
getUser(store, id) ==
  LET i == FindUser(store, id)
  IN  [users |-> store,
       outcome |-> Return(IF i # 0 /\ ToBoolean(store[i]) THEN store[i] ELSE Null)]

\* function updateUser(id, newName)
updateUser(store, id, newName) ==
  LET i == FindUser(store, id)
  IN  IF i = 0
      THEN [users |-> store, outcome |-> UserNotFound]
      ELSE LET updated == [store EXCEPT ![i].props.name = newName]
           IN  [users |-> updated, outcome |-> Return(updated[i])]

\* deleteUser with users.splice(index): every user from index on is removed.
deleteUserToEnd(store, id) ==
  LET i == FindUser(store, id)
  IN  IF i = 0
      THEN [users |-> store, outcome |-> UserNotFound]
      ELSE [users |-> SubSeq(store, 1, i - 1), outcome |-> Return(store[i])]

\* deleteUser without the test index === -1: splice(-1, 1) removes the last
\* user.
deleteUserUnchecked(store, id) ==
  LET i == FindUser(store, id)
  IN  IF i = 0
      THEN IF store = <<>>
           THEN [users |-> store, outcome |-> Return(Undefined)]
           ELSE [users |-> SubSeq(store, 1, Len(store) - 1),
                 outcome |-> Return(store[Len(store)])]
      ELSE [users |-> RemoveAt(store, i), outcome |-> Return(store[i])]

\* function deleteUser(id)
deleteUser(store, id) ==
  LET i == FindUser(store, id)
  IN  IF i = 0
      THEN [users |-> store, outcome |-> UserNotFound]
      ELSE [users |-> RemoveAt(store, i), outcome |-> Return(store[i])]

\* function clearUsers()
clearUsers(store) == [users |-> <<>>, outcome |-> Return(Undefined)]

\* Ids and names passed by callers; the id 0 and undefined are falsy.
Alice == Str(<<"A", "l", "i", "c", "e">>)
Alicia == Str(<<"A", "l", "i", "c", "i", "a">>)
UserIds == {IntegerValue(n) : n \in 0..MaxUserId}
UserNames == {Alice, Alicia}

\* The objects passed to createUser: { id, name }, { id } and { name }.
CreateArguments ==
  {Object([id |-> i, name |-> n]) : i \in UserIds, n \in UserNames}
    \cup {Object([id |-> i]) : i \in UserIds}
    \cup {Object([name |-> n]) : n \in UserNames}

\* The record of the live users without the one of this id.
Without(set, id) == {x \in set : x.id # id}

CallCreateUser(arg) ==
  /\ userCall.pc = "idle"
  /\ LET r == createUser(users, arg)
     IN  /\ users' = r.users
         /\ userCall' = [pc |-> "completed", op |-> "createUser",
                         args |-> <<arg>>, outcome |-> r.outcome,
                         before |-> users]
         /\ live' = IF r.outcome.kind = "return"
                    THEN live \cup {[id |-> GetProperty(arg, "id"),
                                     name |-> GetProperty(arg, "name")]}
                    ELSE live
  /\ UNCHANGED <<exchangeRates, callVars, frameVars, registration, taskVars>>

CallGetUser(id) ==
  /\ userCall.pc = "idle"
  /\ LET r == getUser(users, id)
     IN  /\ users' = r.users
         /\ userCall' = [pc |-> "completed", op |-> "getUser",
                         args |-> <<id>>, outcome |-> r.outcome,
                         before |-> users]
  /\ UNCHANGED <<exchangeRates, callVars, frameVars, registration, live, taskVars>>

CallUpdateUser(id, newName) ==
  /\ userCall.pc = "idle"
  /\ LET r == updateUser(users, id, newName)
     IN  /\ users' = r.users
         /\ userCall' = [pc |-> "completed", op |-> "updateUser",
                         args |-> <<id, newName>>, outcome |-> r.outcome,
                         before |-> users]
         /\ live' = IF r.outcome.kind = "return"
                    THEN Without(live, id) \cup {[id |-> id, name |-> newName]}
                    ELSE live
  /\ UNCHANGED <<exchangeRates, callVars, frameVars, registration, taskVars>>

CallDeleteUser(id) ==
  /\ userCall.pc = "idle"
  /\ LET r == deleteUser(users, id)
     IN  /\ users' = r.users
         /\ userCall' = [pc |-> "completed", op |-> "deleteUser",
                         args |-> <<id>>, outcome |-> r.outcome,
                         before |-> users]
         /\ live' = IF r.outcome.kind = "return" THEN Without(live, id) ELSE live
  /\ UNCHANGED <<exchangeRates, callVars, frameVars, registration, taskVars>>

CallClearUsers ==
  /\ userCall.pc = "idle"
  /\ LET r == clearUsers(users)
     IN  /\ users' = r.users
         /\ userCall' = [pc |-> "completed", op |-> "clearUsers",
                         args |-> <<>>, outcome |-> r.outcome,
                         before |-> users]
  /\ live' = {}
  /\ UNCHANGED <<exchangeRates, callVars, frameVars, registration, taskVars>>

\* The caller has the outcome; the call's frame is gone.
ResumeUserCall ==
  /\ userCall.pc = "completed"
  /\ userCall' = NoUserCall
  /\ UNCHANGED <<exchangeRates, callVars, frameVars, registration, users, live,
                 taskVars>>

NextService ==
  \/ \E arg \in CreateArguments : CallCreateUser(arg)
  \/ \E id \in UserIds \cup {Undefined} : CallGetUser(id)
  \/ \E id \in UserIds \cup {Undefined}, n \in UserNames \cup {Undefined} :
       CallUpdateUser(id, n)
  \/ \E id \in UserIds \cup {Undefined} : CallDeleteUser(id)
  \/ CallClearUsers
  \/ ResumeUserCall

SpecService == Init /\ [][NextService]_vars

(***************************************************************************)
(* taskManager.js                                                          *)
(***************************************************************************)
MaxTasks == 3

TaskNotFound == Throw("Error", "Task not found")

\* this.tasks[index] is a task: index is one of 0 .. length - 1.  A task is
\* an object, so !this.tasks[index] is true exactly when there is none.
HasTask(list, index) == index \in 0..(Len(list) - 1)

\* The identity of the object that a new task literal creates: one that no
\* task of the list has.
FreshKey(list) ==
  CHOOSE k \in 1..(Len(list) + 1) :
    /\ \A i \in 1..Len(list) : list[i].key # k
    /\ \A j \in 1..(k - 1) : \E i \in 1..Len(list) : list[i].key = j

\* addTask(description)
addTask(list, description) ==
  [tasks |-> Append(list, [key |-> FreshKey(list), description |-> description,
                           completed |-> FALSE]),
   outcome |-> Return(Undefined)]

\* getAllTasks()
getAllTasks(list) == [tasks |-> list, outcome |-> Return([t |-> "array", items |-> list])]

\* completeTask with this.tasks[index].completed = !this.tasks[index].completed
completeTaskToggling(list, index) ==
  IF ~HasTask(list, index)
  THEN [tasks |-> list, outcome |-> TaskNotFound]
  ELSE [tasks |-> [list EXCEPT ![index + 1].completed = ~@],
        outcome |-> Return(Undefined)]

\* completeTask(index)
completeTask(list, index) ==
  IF ~HasTask(list, index)
  THEN [tasks |-> list, outcome |-> TaskNotFound]
  ELSE [tasks |-> [list EXCEPT ![index + 1].completed = TRUE],
        outcome |-> Return(Undefined)]

\* deleteTask without the test of this.tasks[index]: splice counts a negative
\* index from the end and removes nothing past the end.
deleteTaskUnchecked(list, index) ==
  LET start == IF index < 0
               THEN (IF Len(list) + index < 0 THEN 0 ELSE Len(list) + index)
               ELSE index
  IN  [tasks |-> IF start < Len(list) THEN RemoveAt(list, start + 1) ELSE list,
       outcome |-> Return(Undefined)]

\* deleteTask(index)
deleteTask(list, index) ==
  IF ~HasTask(list, index)
  THEN [tasks |-> list, outcome |-> TaskNotFound]
  ELSE [tasks |-> RemoveAt(list, index + 1), outcome |-> Return(Undefined)]

BuyGroceries ==
  Str(<<"B", "u", "y", " ", "g", "r", "o", "c", "e", "r", "i", "e", "s">>)
TaskDescriptions == {BuyGroceries, Str(<<"W", "a", "l", "k">>)}

\* Indexes passed by callers: negative, in range and past the end.
TaskIndexes == (0 - 1)..MaxTasks

\* The call of method op with arguments args has run on the list of tasks.
TaskFrame(op, args, r) ==
  [pc |-> "completed", op |-> op, args |-> args, outcome |-> r.outcome,
   before |-> tasks]

CallAddTask(description) ==
  /\ taskCall.pc = "idle"
  /\ Len(tasks) < MaxTasks
  /\ LET r == addTask(tasks, description)
     IN  /\ tasks' = r.tasks
         /\ taskCall' = TaskFrame("addTask", <<description>>, r)
  /\ UNCHANGED <<exchangeRates, callVars, frameVars, registration, serviceVars>>

CallGetAllTasks ==
  /\ taskCall.pc = "idle"
  /\ LET r == getAllTasks(tasks)
     IN  /\ tasks' = r.tasks
         /\ taskCall' = TaskFrame("getAllTasks", <<>>, r)
  /\ UNCHANGED <<exchangeRates, callVars, frameVars, registration, serviceVars>>

CallCompleteTask(index) ==
  /\ taskCall.pc = "idle"
  /\ LET r == completeTask(tasks, index)
     IN  /\ tasks' = r.tasks
         /\ taskCall' = TaskFrame("completeTask", <<index>>, r)
  /\ UNCHANGED <<exchangeRates, callVars, frameVars, registration, serviceVars>>

CallDeleteTask(index) ==
  /\ taskCall.pc = "idle"
  /\ LET r == deleteTask(tasks, index)
     IN  /\ tasks' = r.tasks
         /\ taskCall' = TaskFrame("deleteTask", <<index>>, r)
  /\ UNCHANGED <<exchangeRates, callVars, frameVars, registration, serviceVars>>

\* The caller has the outcome; the call's frame is gone.
ResumeTaskCall ==
  /\ taskCall.pc = "completed"
  /\ taskCall' = NoTaskCall
  /\ UNCHANGED <<exchangeRates, callVars, frameVars, registration, serviceVars,
                 tasks>>

NextTasks ==
  \/ \E d \in TaskDescriptions : CallAddTask(d)
  \/ CallGetAllTasks
  \/ \E i \in TaskIndexes : CallCompleteTask(i)
  \/ \E i \in TaskIndexes : CallDeleteTask(i)
  \/ ResumeTaskCall

SpecTasks == Init /\ [][NextTasks]_vars

TypeOK ==
  /\ pc \in {"idle", "completed"}
  /\ fromSymbol \in Symbols \cup {""}
  /\ toSymbol \in Symbols \cup {""}
  /\ outcome.kind \in {"none", "return", "throw"}
  /\ (pc = "idle") = (outcome.kind = "none")

(***************************************************************************)
(* Vocabulary of the claims.                                               *)
(***************************************************************************)
\* The rate list has a record from f to t.
HasEntry(f, t) == FindRecord(f, t) # 0

\* The rate list has a record from f to t that carries a rate.
HasRate(f, t) == HasEntry(f, t) /\ "rate" \in DOMAIN RateList[FindRecord(f, t)]

\* throw new Error(`Error: Conversion rate from ${fromSymbol} to ${toSymbol} not found.`)
IsUnknownConversionPair(o, f, t) ==
  o.kind = "throw" /\ o.name = "Error" /\ o.message = NotFoundMessage(f, t)

\* throw new Error('Error: Invalid input')
IsInvalidAmount(o) ==
  o.kind = "throw" /\ o.name = "Error" /\ o.message = InvalidInputMessage

Completed == pc = "completed"

\* An amount that is no number, or NaN.
InvalidAmountValue(v) == v.t # "number" \/ v.c = "nan"

(***************************************************************************)
(* C1: a call whose pair (from, to) has no entry in the rate table fails   *)
(* with UnknownConversionPair, the message naming from and to; it fails in *)
(* no other way and returns nothing.                                       *)
(***************************************************************************)
C1_UnknownPairFails ==
  (Completed /\ ~HasEntry(fromSymbol, toSymbol))
    => IsUnknownConversionPair(outcome, fromSymbol, toSymbol)

(***************************************************************************)
(* C2: a call whose amount is no number (a string, null, undefined) or is  *)
(* NaN fails with InvalidAmount, for every pair that has a rate.           *)
(***************************************************************************)
C2_InvalidAmountFails ==
  (Completed /\ HasRate(fromSymbol, toSymbol) /\ InvalidAmountValue(amount))
    => IsInvalidAmount(outcome)

(***************************************************************************)
(* C3: the amount is validated before the pair is looked up: a call with   *)
(* an invalid amount and a pair without entry fails with InvalidAmount,    *)
(* not with UnknownConversionPair.                                         *)
(***************************************************************************)
C3_AmountValidatedFirst ==
  (Completed /\ ~HasEntry(fromSymbol, toSymbol) /\ InvalidAmountValue(amount))
    => (IsInvalidAmount(outcome)
        /\ ~IsUnknownConversionPair(outcome, fromSymbol, toSymbol))

(***************************************************************************)
(* C4: a record of the table that has no rate is treated as an absent      *)
(* record: for every numeric amount the call from EUR to USD fails with    *)
(* UnknownConversionPair and never returns NaN.                            *)
(***************************************************************************)
C4_MissingRateIsUnknownPair ==
  (Completed /\ HasEntry(fromSymbol, toSymbol) /\ ~HasRate(fromSymbol, toSymbol)
     /\ IsNumber(amount) /\ ~IsNaNValue(amount))
    => IsUnknownConversionPair(outcome, fromSymbol, toSymbol)

(***************************************************************************)
(* C5: every call returns a finite number, or fails with InvalidAmount, or *)
(* fails with UnknownConversionPair; it never returns NaN, undefined or a  *)
(* string and never fails with another error.                              *)
(***************************************************************************)
C5_ThreeOutcomes ==
  Completed =>
    \/ outcome.kind = "return" /\ IsFiniteNumber(outcome.value)
    \/ IsInvalidAmount(outcome)
    \/ IsUnknownConversionPair(outcome, fromSymbol, toSymbol)

(***************************************************************************)
(* C6: when validation passes the result is amount * rate(from, to) with   *)
(* the rates USD->PHP 57.37, USD->INR 74.5, USD->EUR 0.85, INR->USD 0.013, *)
(* EUR->USD 1.18, PHP->USD 0.017, unrounded; 100, 50 and 500 USD are       *)
(* 5737, 2868.5 and 28685 PHP.                                             *)
(***************************************************************************)
C6_StatedPairs ==
  {Pair("USD", "PHP"), Pair("USD", "INR"), Pair("USD", "EUR"),
   Pair("INR", "USD"), Pair("EUR", "USD"), Pair("PHP", "USD")}

C6_StatedRate(f, t) ==
  CASE f = "USD" /\ t = "PHP" -> Decimal(0, 5737, 100)
    [] f = "USD" /\ t = "INR" -> Decimal(0, 745, 10)
    [] f = "USD" /\ t = "EUR" -> Decimal(0, 85, 100)
    [] f = "INR" /\ t = "USD" -> Decimal(0, 13, 1000)
    [] f = "EUR" /\ t = "USD" -> Decimal(0, 118, 100)
    [] f = "PHP" /\ t = "USD" -> Decimal(0, 17, 1000)

C6_ResultIsAmountTimesStatedRate ==
  (Completed /\ Pair(fromSymbol, toSymbol) \in C6_StatedPairs
     /\ IsFiniteNumber(amount))
    => /\ outcome = Return(NumberMultiply(amount, C6_StatedRate(fromSymbol, toSymbol)))
       /\ (fromSymbol = "USD" /\ toSymbol = "PHP" /\ amount = IntegerValue(100))
            => outcome = Return(IntegerValue(5737))
       /\ (fromSymbol = "USD" /\ toSymbol = "PHP" /\ amount = IntegerValue(50))
            => outcome = Return(Decimal(0, 28685, 10))
       /\ (fromSymbol = "USD" /\ toSymbol = "PHP" /\ amount = IntegerValue(500))
            => outcome = Return(IntegerValue(28685))

C8_InfinityRejected ==
  (Completed /\ HasRate(fromSymbol, toSymbol) /\ amount \in {Infinity(0), Infinity(1)})
    => IsInvalidAmount(outcome)

(***************************************************************************)
(* C9: no inversion: when the pair (to, from) has a usable rate and the    *)
(* pair (from, to) has none, the call fails with UnknownConversionPair for *)
(* every numeric amount.                                                   *)
(***************************************************************************)
C9_NoInversion ==
  (Completed /\ HasRate(toSymbol, fromSymbol) /\ ~HasRate(fromSymbol, toSymbol)
     /\ IsNumber(amount) /\ ~IsNaNValue(amount))
    => IsUnknownConversionPair(outcome, fromSymbol, toSymbol)

(***************************************************************************)
(* C10: no chaining: a pair (from, to) without its own entry fails with    *)
(* UnknownConversionPair also when entries (from, b) and (b, to) exist, as *)
(* for 10 PHP to EUR through USD.                                          *)
(***************************************************************************)
C10_Chained(f, t) == \E b \in Symbols : HasEntry(f, b) /\ HasEntry(b, t)

C10_NoChaining ==
  (Completed /\ ~HasEntry(fromSymbol, toSymbol) /\ C10_Chained(fromSymbol, toSymbol)
     /\ IsNumber(amount) /\ ~IsNaNValue(amount))
    => IsUnknownConversionPair(outcome, fromSymbol, toSymbol)

(***************************************************************************)
(* C11: currency codes are normalised at lookup: a call with lower-case    *)
(* codes has the outcome of the call with the codes in upper case, so      *)
(* ('usd', 'php', 100) returns what ('USD', 'PHP', 100) returns.           *)
(***************************************************************************)
C11_UpperCase(code) ==
  CASE code = "usd" -> "USD"
    [] code = "php" -> "PHP"
    [] code = "name" -> "NAME"
    [] code = "constructor" -> "CONSTRUCTOR"
    [] OTHER -> code

C11_CaseInsensitive ==
  Completed =>
    outcome = exportedCurrencyConverter(C11_UpperCase(fromSymbol),
                                        C11_UpperCase(toSymbol), amount)

(***************************************************************************)
(* C12: for every pair that appears in the rate table, a call with amount  *)
(* 0 returns 0; it neither fails nor returns NaN.                          *)
(***************************************************************************)
C12_ZeroGivesZero ==
  (Completed /\ HasEntry(fromSymbol, toSymbol) /\ amount = Zero(0))
    => outcome = Return(Zero(0))

(***************************************************************************)
(* Two calls: the one the caller kept and the one that has just completed. *)
(***************************************************************************)
KeptCall == kept.kind = "call"

SamePairAsKept == KeptCall /\ kept.from = fromSymbol /\ kept.to = toSymbol

(***************************************************************************)
(* C13: sign preservation: a negative amount is valid, and for every pair  *)
(* with a rate and every numeric amount the call with -amount returns the  *)
(* negation of what the call with amount returns.                          *)
(***************************************************************************)
C13_SignPreserved ==
  (Completed /\ SamePairAsKept /\ HasRate(fromSymbol, toSymbol)
     /\ IsNumber(kept.amount) /\ ~IsNaNValue(kept.amount)
     /\ amount = Negate(kept.amount))
    => /\ kept.outcome.kind = "return"
       /\ outcome.kind = "return"
       /\ outcome.value = Negate(kept.outcome.value)

C13_Witness ==
  /\ Completed /\ SamePairAsKept
  /\ fromSymbol = "USD" /\ toSymbol = "PHP"
  /\ kept.amount = IntegerValue(3) /\ amount = IntegerValue(0 - 3)
  /\ outcome.kind = "return" /\ outcome.value.s = 1
  /\ outcome.value = Negate(kept.outcome.value)

(***************************************************************************)
(* C14: linearity: for every pair with a rate and every numeric amount the *)
(* call returns amount times what the call with amount 1 returns.          *)
(***************************************************************************)
C14_Linear ==
  (Completed /\ SamePairAsKept /\ HasRate(fromSymbol, toSymbol)
     /\ kept.amount = IntegerValue(1)
     /\ IsNumber(amount) /\ ~IsNaNValue(amount))
    => /\ kept.outcome.kind = "return"
       /\ outcome = Return(NumberMultiply(amount, kept.outcome.value))

C14_Witness ==
  /\ Completed /\ SamePairAsKept
  /\ fromSymbol = "USD" /\ toSymbol = "PHP"
  /\ kept.amount = IntegerValue(1) /\ amount = IntegerValue(100)
  /\ outcome = Return(IntegerValue(5736))
  /\ outcome = Return(NumberMultiply(amount, kept.outcome.value))

C16_TableNeverMutated == exchangeRates = NestedRates

C16_Witness ==
  /\ KeptCall /\ kept.outcome.kind = "throw"
  /\ Completed /\ outcome.kind = "return"
  /\ exchangeRates = NestedRates

(***************************************************************************)
(* C18: rate-table invariant: every entry of the nested exchangeRates      *)
(* mapping and every record of the rate list has a multiplier that is a    *)
(* strictly positive finite number.                                        *)
(***************************************************************************)
IsPositiveFinite(v) == IsNumber(v) /\ v.c = "finite" /\ v.s = 0

C18_NestedRatesPositiveFinite ==
  \A f \in DOMAIN exchangeRates :
    \A t \in DOMAIN exchangeRates[f].props :
      IsPositiveFinite(exchangeRates[f].props[t])

C18_RatesPositiveFinite ==
  /\ C18_NestedRatesPositiveFinite
  /\ \A i \in 1..Len(RateList) : IsPositiveFinite(RateOf(RateList[i]))

(***************************************************************************)
(* C17: concurrent use is safe: with the steps of the callers interleaved  *)
(* in any order, each call's outcome is the outcome of the same call run   *)
(* alone, and a call that has bound its rate holds the rate of its own     *)
(* pair, whatever the other callers have done meanwhile.                   *)
(***************************************************************************)
C17_ConcurrentSafe ==
  \A c \in Callers :
    /\ frames[c].pc = "completed" =>
         frames[c].outcome =
           exportedCurrencyConverter(frames[c].fromSymbol, frames[c].toSymbol,
                                     frames[c].amount)
    /\ frames[c].pc = "bound" =>
         rate[RateBinding(c)] =
           RateOf(RateList[FindRecord(frames[c].fromSymbol, frames[c].toSymbol)])

C17_Witness ==
  /\ frames[1].pc = "completed"
  /\ frames[1].fromSymbol = "USD" /\ frames[1].toSymbol = "PHP"
  /\ frames[1].outcome = Return(IntegerValue(5736))
  /\ frames[2].pc = "bound"
  /\ frames[2].fromSymbol = "PHP" /\ frames[2].toSymbol = "USD"

(***************************************************************************)
(* registerUser: vocabulary of the claims.                                 *)
(***************************************************************************)
Registered == registration.pc = "completed"

IsString(v) == v.t = "string"

(***************************************************************************)
(* C19: registerUser throws 'Invalid email!' whenever the email, a string, *)
(* does not contain '@', whatever the password and the username are.      *)
(***************************************************************************)
C19_InvalidEmailFirst ==
  (Registered /\ IsString(registration.email)
     /\ ~Includes(registration.email, "@"))
    => registration.outcome = InvalidEmail

C19_Witness ==
  /\ Registered
  /\ registration.email = Str(<<"t", "t">>)
  /\ registration.password = Repeat("p", 4)
  /\ registration.username = Undefined
  /\ registration.outcome = InvalidEmail

(***************************************************************************)
(* C20: registerUser throws 'Password is too short!' whenever the email    *)
(* contains '@' and the password has fewer than 8 characters, whatever the *)
(* username is; a password of exactly 8 characters is not rejected by the  *)
(* password check.                                                         *)
(***************************************************************************)
C20_ShortPasswordRejected ==
  (Registered /\ IsString(registration.email)
     /\ Includes(registration.email, "@") /\ IsString(registration.password))
    => /\ Len(registration.password.chars) < 8
            => registration.outcome = PasswordTooShort
       /\ Len(registration.password.chars) = 8
            => registration.outcome # PasswordTooShort

C20_Witness ==
  /\ Registered
  /\ registration.email = Str(<<"t", "@">>)
  /\ registration.password = Repeat("p", 7)
  /\ registration.username = Undefined
  /\ registration.outcome = PasswordTooShort

C20_WitnessEight ==
  /\ Registered
  /\ registration.email = Str(<<"t", "@">>)
  /\ registration.password = Repeat("p", 8)
  /\ registration.outcome.kind = "return"

\* The three arguments are strings.
StringArguments ==
  /\ IsString(registration.email)
  /\ IsString(registration.password)
  /\ IsString(registration.username)

(***************************************************************************)
(* C21: registerUser throws 'Username is too short!' exactly when the      *)
(* email contains '@', the password has at least 8 characters and the      *)
(* username has fewer than 3 characters; a username of exactly 3           *)
(* characters is accepted.                                                 *)
(***************************************************************************)
C21_ShortUsernameRejected ==
  (Registered /\ StringArguments)
    => /\ registration.outcome = UsernameTooShort
            <=> /\ Includes(registration.email, "@")
                /\ Len(registration.password.chars) >= 8
                /\ Len(registration.username.chars) < 3
       /\ ( /\ Includes(registration.email, "@")
            /\ Len(registration.password.chars) >= 8
            /\ Len(registration.username.chars) = 3 )
            => registration.outcome.kind = "return"

C21_Witness ==
  /\ Registered
  /\ registration.email = Str(<<"@", "t">>)
  /\ registration.password = Repeat("p", 8)
  /\ registration.username = Repeat("u", 2)
  /\ registration.outcome = UsernameTooShort

C21_WitnessThree ==
  /\ Registered
  /\ registration.email = Str(<<"@", "t">>)
  /\ registration.password = Repeat("p", 8)
  /\ registration.username = Repeat("u", 3)
  /\ registration.outcome.kind = "return"

(***************************************************************************)
(* C22: for input that passes the three checks registerUser returns an     *)
(* object with the fields email, username and password, and for            *)
(* registerUser('test@email.com', 'password', 'username') that object      *)
(* equals {email: '', username: '', password: ''}.                         *)
(***************************************************************************)
IsTestCall ==
  /\ Registered
  /\ registration.email = TestEmail
  /\ registration.password = TestPassword
  /\ registration.username = TestUsername

C22_ReturnsObjectWithFields ==
  (Registered /\ registration.outcome.kind = "return")
    => /\ registration.outcome.value.t = "object"
       /\ DOMAIN registration.outcome.value.props = {"email", "username", "password"}

C22_TestCallReturnsEmptyFields ==
  /\ C22_ReturnsObjectWithFields
  /\ IsTestCall =>
       registration.outcome =
         Return(Object([email |-> Str(<<>>), username |-> Str(<<>>),
                        password |-> Str(<<>>)]))

(***************************************************************************)
(* C29: registerUser has no effect other than its result, and on input     *)
(* that passes the three checks it returns an object whose email, username *)
(* and password fields are the arguments it was given.                     *)
(***************************************************************************)
PassesChecks ==
  /\ StringArguments
  /\ Includes(registration.email, "@")
  /\ Len(registration.password.chars) >= 8
  /\ Len(registration.username.chars) >= 3

UserCompleted(op) == userCall.pc = "completed" /\ userCall.op = op

NoDuplicateIds(store) ==
  \A i \in 1..Len(store) : \A j \in 1..Len(store) :
    i # j => ~StrictEquals(store[i].props.id, store[j].props.id)

\* The argument of createUser carries an id and a name.
HasIdAndName(arg) == {"id", "name"} \subseteq DOMAIN arg.props

(***************************************************************************)
(* C23: in every state reachable by createUser, updateUser, deleteUser and *)
(* clearUsers calls no two stored users have the same id; createUser with  *)
(* an id and a name whose id is already in the store throws 'User already  *)
(* exists' and leaves the store unchanged.                                 *)
(***************************************************************************)
C23_UniqueIds ==
  /\ NoDuplicateIds(users)
  /\ ( /\ UserCompleted("createUser")
       /\ HasIdAndName(userCall.args[1])
       /\ FindUser(userCall.before, userCall.args[1].props.id) # 0 )
       => /\ userCall.outcome = UserAlreadyExists
          /\ users = userCall.before

C23_Witness ==
  /\ UserCompleted("createUser")
  /\ userCall.args[1] = Object([id |-> IntegerValue(1), name |-> Alice])
  /\ Len(userCall.before) = 2
  /\ userCall.before[2].props.id = IntegerValue(1)
  /\ userCall.outcome = UserAlreadyExists
  /\ users = userCall.before

(***************************************************************************)
(* C24: createUser called with a missing id or a missing name throws 'ID   *)
(* and Name are required' and adds nothing, also when the id is already in *)
(* the store; createUser with both fields present and a fresh id appends   *)
(* {id, name} and returns it.                                              *)
(***************************************************************************)
C24_MissingFieldRejected ==
  (UserCompleted("createUser") /\ ~HasIdAndName(userCall.args[1]))
    => /\ userCall.outcome = RequiredFields
       /\ users = userCall.before

C24_RequiredFields ==
  /\ C24_MissingFieldRejected
  /\ ( /\ UserCompleted("createUser")
       /\ HasIdAndName(userCall.args[1])
       /\ FindUser(userCall.before, userCall.args[1].props.id) = 0 )
       => /\ users = Append(userCall.before, userCall.args[1])
          /\ userCall.outcome = Return(userCall.args[1])

(***************************************************************************)
(* C25: after any sequence of operations getUser(id) returns the stored    *)
(* user of that id when one was created and not since deleted or cleared,  *)
(* with the name of the latest updateUser, and null otherwise; a           *)
(* successful deleteUser(id) returns the removed user, leaves every other  *)
(* user unchanged, and getUser(id) is null right after it.                 *)
(***************************************************************************)
\* What getUser(id) is to return according to the calls made so far.
ExpectedUser(id) ==
  IF \E x \in live : x.id = id
  THEN Object([id |-> id, name |-> (CHOOSE x \in live : x.id = id).name])
  ELSE Null

C25_GetUserTracksCalls ==
  /\ \A id \in UserIds \cup {Undefined} :
       getUser(users, id).outcome = Return(ExpectedUser(id))
  /\ UserCompleted("getUser") =>
       userCall.outcome = Return(ExpectedUser(userCall.args[1]))
  /\ (UserCompleted("deleteUser") /\ userCall.outcome.kind = "return") =>
       LET i == FindUser(userCall.before, userCall.args[1])
       IN  /\ i # 0
           /\ userCall.outcome.value = userCall.before[i]
           /\ users = RemoveAt(userCall.before, i)
           /\ getUser(users, userCall.args[1]).outcome = Return(Null)

C25_Witness ==
  /\ UserCompleted("deleteUser")
  /\ userCall.args[1] = IntegerValue(2)
  /\ Len(userCall.before) = 3
  /\ userCall.before[1].props.id = IntegerValue(2)
  /\ userCall.outcome = Return(Object([id |-> IntegerValue(2), name |-> Alicia]))
  /\ users = SubSeq(userCall.before, 2, 3)
  /\ getUser(users, IntegerValue(2)).outcome = Return(Null)
  /\ getUser(users, IntegerValue(3)).outcome.value.t = "object"

(***************************************************************************)
(* C26: updateUser(id, newName) and deleteUser(id) called with an id that  *)
(* is not in the store throw 'User not found' and leave the store, its     *)
(* users, their names and their order, unchanged.                          *)
(***************************************************************************)
C26_UnknownUserRejected ==
  ( /\ UserCompleted("updateUser") \/ UserCompleted("deleteUser")
    /\ FindUser(userCall.before, userCall.args[1]) = 0 )
    => /\ userCall.outcome = UserNotFound
       /\ users = userCall.before

C26_Witness ==
  /\ UserCompleted("deleteUser")
  /\ userCall.args[1] = IntegerValue(3)
  /\ Len(userCall.before) = 2
  /\ userCall.outcome = UserNotFound
  /\ users = userCall.before

(***************************************************************************)
(* TaskManager: vocabulary of the claims.                                  *)
(***************************************************************************)
\* A call of the method op has completed.
TaskCompleted(op) == taskCall.pc = "completed" /\ taskCall.op = op

(***************************************************************************)
(* C27: completeTask(index) and deleteTask(index) with an index at which   *)
(* no task exists (negative, or at least the number of tasks) throw 'Task  *)
(* not found' and leave the list unchanged; with a valid index             *)
(* completeTask sets completed on that task only and deleteTask removes    *)
(* exactly that task, the others keeping their relative order.             *)
(***************************************************************************)
C27_InvalidIndexRejected ==
  ( /\ TaskCompleted("completeTask") \/ TaskCompleted("deleteTask")
    /\ ~(taskCall.args[1] >= 0 /\ taskCall.args[1] < Len(taskCall.before)) )
    => /\ taskCall.outcome = TaskNotFound
       /\ tasks = taskCall.before

C27_ValidIndexComplete ==
  ( /\ TaskCompleted("completeTask")
    /\ taskCall.args[1] >= 0 /\ taskCall.args[1] < Len(taskCall.before) )
    => /\ taskCall.outcome.kind = "return"
       /\ Len(tasks) = Len(taskCall.before)
       /\ \A j \in 1..Len(tasks) :
            IF j = taskCall.args[1] + 1
            THEN /\ tasks[j].completed
                 /\ tasks[j].description = taskCall.before[j].description
                 /\ tasks[j].key = taskCall.before[j].key
            ELSE tasks[j] = taskCall.before[j]

C27_ValidIndexDelete ==
  ( /\ TaskCompleted("deleteTask")
    /\ taskCall.args[1] >= 0 /\ taskCall.args[1] < Len(taskCall.before) )
    => /\ taskCall.outcome.kind = "return"
       /\ Len(tasks) = Len(taskCall.before) - 1
       /\ \A j \in 1..Len(tasks) :
            tasks[j] = taskCall.before[IF j <= taskCall.args[1] THEN j ELSE j + 1]

C27_IndexChecked ==
  /\ C27_InvalidIndexRejected
  /\ C27_ValidIndexComplete
  /\ C27_ValidIndexDelete

C27_Witness ==
  /\ TaskCompleted("deleteTask")
  /\ taskCall.args[1] = 0 - 1
  /\ Len(taskCall.before) = 2
  /\ taskCall.outcome = TaskNotFound
  /\ tasks = taskCall.before

C27_WitnessDelete ==
  /\ TaskCompleted("deleteTask")
  /\ taskCall.args[1] = 1
  /\ Len(taskCall.before) = 3
  /\ tasks = <<taskCall.before[1], taskCall.before[3]>>
  /\ tasks[2].completed /\ ~tasks[1].completed

(***************************************************************************)
(* C30: every task is added with completed = false at the end of the list, *)
(* and completion is monotone: a task whose completed flag is true keeps   *)
(* it in every later state until the task is deleted, and completeTask on  *)
(* a completed task changes nothing.                                       *)
(***************************************************************************)
\* In one step every task that was completed and is still in the list is
\* completed.
StaysCompleted ==
  \A i \in 1..Len(tasks) :
    tasks[i].completed =>
      \A j \in 1..Len(tasks') :
        tasks'[j].key = tasks[i].key => tasks'[j].completed

\* A step that is a call of addTask appends one task that is not completed.
AddsUncompletedLast ==
  (taskCall.pc = "idle" /\ taskCall'.pc = "completed" /\ taskCall'.op = "addTask")
    => /\ Len(tasks') = Len(tasks) + 1
       /\ SubSeq(tasks', 1, Len(tasks)) = tasks
       /\ tasks'[Len(tasks')].description = taskCall'.args[1]
       /\ ~tasks'[Len(tasks')].completed

\* A step that is a call of completeTask on a completed task.
CompleteAgainChangesNothing ==
  ( /\ taskCall.pc = "idle" /\ taskCall'.pc = "completed"
    /\ taskCall'.op = "completeTask"
    /\ HasTask(tasks, taskCall'.args[1])
    /\ tasks[taskCall'.args[1] + 1].completed )
    => tasks' = tasks

C30_CompletionMonotone ==
  [][StaysCompleted /\ AddsUncompletedLast /\ CompleteAgainChangesNothing]_vars

C30_Witness ==
  /\ TaskCompleted("completeTask")
  /\ Len(tasks) = 2
  /\ taskCall.args[1] = 1
  /\ taskCall.before[2].completed
  /\ taskCall.outcome.kind = "return"
  /\ tasks = taskCall.before
  /\ ~tasks[1].completed

(***************************************************************************)
(* C28: the two functions assigned to exports.currencyConverter are        *)
(* observationally equivalent: for every from, to and amount they return   *)
(* the same value or fail in the same way.                                 *)
(***************************************************************************)
\* The same returned value, or the same error thrown.
SameObservation(a, b) ==
  /\ a.kind = b.kind
  /\ a.kind = "return" => a.value = b.value
  /\ a.kind = "throw" => a.name = b.name /\ a.message = b.message

C28_DefinitionsEquivalent ==
  Completed =>
    SameObservation(outcome, currencyConverterFirst(fromSymbol, toSymbol, amount))

\* Where the two functions do agree: a pair of both tables other than
\* USD to PHP, and a finite or infinite amount.
C28_AgreeOnSharedRates ==
  ( /\ Completed
    /\ HasRate(fromSymbol, toSymbol)
    /\ Pair(fromSymbol, toSymbol) # Pair("USD", "PHP")
    /\ IsNumber(amount) /\ ~IsNaNValue(amount) )
    => SameObservation(outcome, currencyConverterFirst(fromSymbol, toSymbol, amount))

=============================================================================
